---------------------------- MODULE Spec2Model ----------------------------
(***************************************************************************)
(* A model of cracktunes2: the per-guild track queue (src/src/queue.rs),   *)
(* the guild queue registry (src/src/lib.rs), the commands of src/src/     *)
(* main.rs and the voice-event callbacks of src/src/event_handlers.rs.     *)
(*                                                                         *)
(* Nine specifications share the variables:                                *)
(*   SpecQueue  one CrackTrackQueue driven through its public methods;     *)
(*   SpecClient the queue methods CrackTrackClient forwards to a guild;    *)
(*   SpecReg    tasks racing through CrackTrackClient::get_queue;          *)
(*   SpecConc   tasks calling the methods of one queue concurrently;       *)
(*   SpecResolve query resolution under every collaborator outcome;        *)
(*   Spec       one guild's commands and track callbacks;                  *)
(*   SpecIdle   one guild's periodic tick and idle timeout;                *)
(*   SpecLock   the locks enqueue and clear take, step by step;            *)
(*   SpecAppend append_queue round by round beside another enqueue.        *)
(* A track is identified by its URL (a number).  An Option<ResolvedTrack>  *)
(* is a sequence of length 0 (None) or 1 (Some).                           *)
(***************************************************************************)
EXTENDS Integers, Sequences, FiniteSets, TLC

\* ------------------------------------------------------------- bounds
\* Number of distinct track URLs.
NumUrls == 3
\* Largest queue length the model lets a queue grow to.
MaxQueue == 3
\* Length of the enqueue log kept while a queue is observed for FIFO order.
MaxLog == 3

Urls == 1..NumUrls

VARIABLES
    guild_queues,   \* CrackTrackClient.guild_queues: guild -> queue id, 0 = no entry
    inner,          \* the entries of every CrackTrackQueue created so far, by queue id
    last,           \* observation: the operation that ran last, its inputs and results
    enqLog,         \* observation: the tracks enqueued, while only enqueue/dequeue ran
    deqLog,         \* observation: the tracks dequeue returned, in order
    pure,           \* observation: no mutation other than enqueue/dequeue ran so far
    call,           \* songbird holds a Call for the guild (the bot is in a voice channel)
    tracks,         \* the tracks handed to the transport, in the order they were handed
    notifiers,      \* the ChannelDurationNotifiers among the Call's global events
    idle_info,      \* CrackTrackClient.idle_timeouts entry of the guild (an Option)
    fin,            \* observation: "Queue finished." messages since the last track start
    task,           \* the tasks inside CrackTrackClient::get_queue: their position and handle
    display         \* the display field of the long-lived handle of every queue, by queue id

qvars == <<guild_queues, inner, last, enqLog, deqLog, pure>>
pvars == <<call, tracks, notifiers, idle_info, fin>>
vars == <<guild_queues, inner, last, enqLog, deqLog, pure,
          call, tracks, notifiers, idle_info, fin, task, display>>

\* The protocol variables, for the specifications that leave them alone.
InitProtocolIdle ==
    /\ call = FALSE
    /\ tracks = <<>>
    /\ notifiers = <<>>
    /\ idle_info = <<>>
    /\ fin = 0

\* ------------------------------------------------- VecDeque operations
\* Each models the body of one CrackTrackQueue method: lock, one VecDeque
\* call, unlock.  Results carry the new entries (q) and the returned value.

None == <<>>
Some(t) == <<t>>

push_back(s, t) == Append(s, t)

push_front(s, t) == <<t>> \o s

pop_front_last(s) ==
    IF s = <<>> THEN [q |-> s, ret |-> None]
    ELSE [q |-> SubSeq(s, 1, Len(s) - 1), ret |-> Some(s[Len(s)])]

pop_front(s) ==
    IF s = <<>> THEN [q |-> s, ret |-> None]
    ELSE [q |-> Tail(s), ret |-> Some(Head(s))]

pop_back(s) ==
    IF s = <<>> THEN [q |-> s, ret |-> None]
    ELSE [q |-> SubSeq(s, 1, Len(s) - 1), ret |-> Some(s[Len(s)])]

\* enqueue with no pre-acquired call on a queue without a songbird call:
\* push_back and nothing else (queue.rs 73, 76-86 skipped).
enqueue(s, t) == push_back(s, t)

\* A dequeue that returns the head and leaves it in the queue.
dequeue_keeps(s) == [q |-> s, ret |-> pop_front(s).ret]

dequeue_default(s) ==
    IF s = <<>> THEN [q |-> s, ret |-> Some(1)] ELSE pop_front(s)

dequeue(s) == pop_front(s)

\* get(index): 0-based, None when out of range.
get(s, i) == IF i < Len(s) THEN Some(s[i + 1]) ELSE None

\* remove written with VecDeque::swap_remove_back: the last track takes the
\* place of the removed one.
remove_swap_remove_back(s, i) ==
    IF i < Len(s)
    THEN [q |-> [j \in 1..(Len(s) - 1) |-> IF j = i + 1 THEN s[Len(s)] ELSE s[j]],
          ret |-> Some(s[i + 1])]
    ELSE [q |-> s, ret |-> None]

\* remove(index): VecDeque::remove, None when out of range.
remove(s, i) ==
    IF i < Len(s)
    THEN [q |-> SubSeq(s, 1, i) \o SubSeq(s, i + 2, Len(s)), ret |-> Some(s[i + 1])]
    ELSE [q |-> s, ret |-> None]

\* insert(index, track): VecDeque::insert panics when index > len.
insert(s, i, t) ==
    IF i <= Len(s)
    THEN [q |-> SubSeq(s, 1, i) \o <<t>> \o SubSeq(s, i + 1, Len(s)), panic |-> FALSE]
    ELSE [q |-> s, panic |-> TRUE]

\* append / append_vec: the other collection is moved to the tail.
append(s, v) == s \o v

clear(s) == <<>>

is_empty(s) == s = <<>>

len(s) == Len(s)

\* slice swap(i, j), 1-based here.
swap_overwrite(s, i, j) == [s EXCEPT ![i] = s[j]]

swap(s, i, j) == [s EXCEPT ![i] = s[j], ![j] = s[i]]

\* SliceRandom::shuffle (Fisher-Yates): for i from len-1 down to 1, swap
\* element i with a random element of 0..=i.  The set of all outcomes.
RECURSIVE shuffle_from(_, _)
shuffle_from(s, i) ==
    IF i <= 1 THEN {s}
    ELSE UNION {shuffle_from(swap(s, i, j), i - 1) : j \in 1..i}

shuffle(s) == shuffle_from(s, Len(s))

\* ------------------------------------------------------- observations
\* op: the operation; arg, idx: its inputs; pre: the entries before it; ret: the
\* returned Option; sig: its outcome signal; n: consecutive repetitions;
\* msgs: the messages it sent; cmds: its transport commands; started: the
\* track it handed to the transport; live: tracks playing before it; deq: the
\* entries it removed; cnt, la, timeout: what a periodic tick compared; meta:
\* the metadata of the track a queue command made.  at: the entries of the
\* queue as play_next_from_queue or a callback found them.  query, res: the
\* query a resolution was called with and its Result, each as an Option;
\* fetch: what the playlist fetch of a playlist command returned.
NoOp == [op |-> "init", arg |-> None, idx |-> 0, pre |-> None, ret |-> None,
         sig |-> "", n |-> 0, msgs |-> <<>>, cmds |-> <<>>, started |-> None,
         live |-> 0, deq |-> 0, cnt |-> 0, la |-> 0, timeout |-> 0, meta |-> None,
         at |-> <<>>, query |-> None, res |-> None, fetch |-> None, hnd |-> {}]

Count(s, u) == Cardinality({i \in 1..Len(s) : s[i] = u})

SameTracks(s, t) == \A u \in Urls : Count(s, u) = Count(t, u)

\* The queue the single-queue specification drives.
Q1 == inner[1]

SetQ1(s) == inner' = [inner EXCEPT ![1] = s]

\* ------------------------------------------------------ the display
\* A display string is modelled by its lines; a line is its fixed text and
\* the track whose to_string it holds, if any.
Line(text, track) == [text |-> text, track |-> track]

\* EMPTY_QUEUE, the display of a queue whose display was never built.
EMPTY_QUEUE == <<Line("Queue is empty or display not built.", None)>>

\* ResolvedTrack's Display: one line that holds the track's title and URL.
to_string(t) == Line("", Some(t))

\* queue.iter().map(ToString::to_string).collect().join("\n"): the join of
\* no strings is the empty string, which is one empty line.
join(q) == IF q = <<>> THEN <<Line("", None)>> ELSE [i \in 1..Len(q) |-> to_string(q[i])]

build_display_drops_head(q, playing) ==
    <<Line("Nothing is currently playing.", None), Line("", None)>>
        \o join(IF q = <<>> THEN q ELSE Tail(q))

\* CrackTrackQueue::build_display: the now-playing line, an empty line, the
\* queued tracks one per line.
build_display(q, playing) ==
    <<IF playing # None THEN Line("Now Playing: ", playing)
      ELSE Line("Nothing is currently playing.", None)>>
        \o <<Line("", None)>> \o join(q)

\* CrackTrackQueue::get_display: a copy of the display field.
get_display(d) == d

DefaultEmptyDisplay == [inner |-> <<>>, display |-> <<>>, playing |-> None]

\* CrackTrackQueue::default (and new): no entries, the placeholder display,
\* nothing playing.  No code assigns the playing field afterwards.
Default == [inner |-> <<>>, display |-> EMPTY_QUEUE, playing |-> None]

\* The tracks whose lines a display holds, in order.
Shown(d) ==
    LET RECURSIVE F(_)
        F(i) == IF i > Len(d) THEN <<>> ELSE d[i].track \o F(i + 1) IN
    F(1)

\* Any mutation other than enqueue/dequeue ends the FIFO observation.
Impure == pure' = FALSE /\ enqLog' = <<>> /\ deqLog' = <<>>

\* --------------------------------------------- SpecQueue: one queue
InitQueue ==
    /\ guild_queues = [g \in {1} |-> 0]
    /\ inner = << <<>> >>
    /\ last = NoOp
    /\ enqLog = <<>>
    /\ deqLog = <<>>
    /\ pure = TRUE
    /\ InitProtocolIdle
    /\ task = <<>>
    /\ display = <<Default.display>>

QEnqueue(t) ==
    /\ Len(Q1) < MaxQueue
    /\ SetQ1(enqueue(Q1, t))
    /\ last' = [NoOp EXCEPT !.op = "enqueue", !.arg = Some(t), !.pre = Q1, !.ret = Some(t)]
    /\ IF pure /\ Len(enqLog) < MaxLog
       THEN enqLog' = Append(enqLog, t) /\ UNCHANGED <<deqLog, pure>>
       ELSE Impure
    /\ UNCHANGED <<guild_queues, pvars, task, display>>

QDequeue ==
    LET r == dequeue(Q1) IN
    /\ SetQ1(r.q)
    /\ last' = [NoOp EXCEPT !.op = "dequeue", !.pre = Q1, !.ret = r.ret]
    /\ IF pure
       THEN deqLog' = deqLog \o r.ret /\ UNCHANGED <<enqLog, pure>>
       ELSE UNCHANGED <<enqLog, deqLog, pure>>
    /\ UNCHANGED <<guild_queues, pvars, task, display>>

QPushFront(t) ==
    /\ Len(Q1) < MaxQueue
    /\ SetQ1(push_front(Q1, t))
    /\ last' = [NoOp EXCEPT !.op = "push_front", !.arg = Some(t), !.pre = Q1]
    /\ Impure
    /\ UNCHANGED <<guild_queues, pvars, task, display>>

QPopBack ==
    LET r == pop_back(Q1) IN
    /\ SetQ1(r.q)
    /\ last' = [NoOp EXCEPT !.op = "pop_back", !.pre = Q1, !.ret = r.ret]
    /\ Impure
    /\ UNCHANGED <<guild_queues, pvars, task, display>>

QGet(i) ==
    /\ last' = [NoOp EXCEPT !.op = "get", !.idx = i, !.pre = Q1, !.ret = get(Q1, i)]
    /\ UNCHANGED <<guild_queues, inner, enqLog, deqLog, pure, pvars, task, display>>

QRemove(i) ==
    LET r == remove(Q1, i) IN
    /\ SetQ1(r.q)
    /\ last' = [NoOp EXCEPT !.op = "remove", !.idx = i, !.pre = Q1, !.ret = r.ret]
    /\ Impure
    /\ UNCHANGED <<guild_queues, pvars, task, display>>

QInsert(i, t) ==
    LET r == insert(Q1, i, t) IN
    /\ Len(Q1) < MaxQueue
    /\ SetQ1(r.q)
    /\ last' = [NoOp EXCEPT !.op = "insert", !.idx = i, !.arg = Some(t), !.pre = Q1,
                            !.sig = IF r.panic THEN "panic" ELSE ""]
    /\ Impure
    /\ UNCHANGED <<guild_queues, pvars, task, display>>

QAppendVec(v) ==
    /\ Len(Q1) + Len(v) <= MaxQueue
    /\ SetQ1(append(Q1, v))
    /\ last' = [NoOp EXCEPT !.op = "append_vec", !.arg = v, !.pre = Q1]
    /\ Impure
    /\ UNCHANGED <<guild_queues, pvars, task, display>>

QClear ==
    /\ SetQ1(clear(Q1))
    /\ last' = [NoOp EXCEPT !.op = "clear", !.pre = Q1]
    /\ Impure
    /\ UNCHANGED <<guild_queues, pvars, task, display>>

\* Consecutive shuffles keep the entries seen before the first of them.
QShuffle ==
    /\ \E p \in shuffle(Q1) : SetQ1(p)
    /\ last' = IF last.op = "shuffle"
               THEN [last EXCEPT !.n = IF last.n < 2 THEN last.n + 1 ELSE 2]
               ELSE [NoOp EXCEPT !.op = "shuffle", !.pre = Q1, !.n = 1]
    /\ Impure
    /\ UNCHANGED <<guild_queues, pvars, task, display>>

\* build_display on the queue's handle.
QBuildDisplay ==
    /\ display' = [display EXCEPT ![1] = build_display(Q1, Default.playing)]
    /\ last' = [NoOp EXCEPT !.op = "build_display", !.pre = Q1]
    /\ UNCHANGED <<guild_queues, inner, enqLog, deqLog, pure, pvars, task>>

\* get_display on the queue's handle; n = 1: the call before was build_display.
QGetDisplay ==
    /\ last' = [NoOp EXCEPT !.op = "get_display", !.pre = Q1,
                            !.ret = get_display(display[1]),
                            !.n = IF last.op = "build_display" THEN 1 ELSE 0]
    /\ UNCHANGED <<guild_queues, inner, enqLog, deqLog, pure, pvars, task, display>>

NextQueue ==
    \/ \E t \in Urls : QEnqueue(t)
    \/ QDequeue
    \/ \E t \in Urls : QPushFront(t)
    \/ QPopBack
    \/ \E i \in 0..MaxQueue : QGet(i)
    \/ \E i \in 0..MaxQueue : QRemove(i)
    \/ \E i \in 0..MaxQueue, t \in Urls : QInsert(i, t)
    \/ \E a, b \in Urls : QAppendVec(<<a, b>>)
    \/ QClear
    \/ QShuffle
    \/ QBuildDisplay
    \/ QGetDisplay

SpecQueue == InitQueue /\ [][NextQueue]_vars

\* ------------------------------------------------ Spec: one guild
\* The guild the protocol specification follows.
G == 1
\* Largest number of tracks the transport holds at once (playing, or with an
\* event not yet delivered).
MaxLive == 2
\* Largest value a notifier's minute counter reaches.
MaxTick == 5
\* Largest number of periodic notifiers registered on one Call.
MaxNotifiers == 1
\* IdleTimeoutInfo::default: timeout_minutes.
DefaultTimeout == 5
\* The values set_idle_timeout is called with.
TimeoutChoices == {0, 2}
\* The track lists a playlist resolves to.
PlaylistChoices == {<<>>, <<1, 2>>, <<1, 2, 3>>}
\* The URLs the queue command is called with.
CmdUrls == {1, 2}

MsgNowPlaying == "Now playing"
MsgFinished == "Queue finished."
MsgLoop == "Queue ended. Restarting loop..."
MsgError == "Error playing track, skipping to next in queue..."

\* A get_queue that hands every guild the first queue of the registry.
get_queue_shared(gq, inn, g) ==
    IF inn = <<>>
    THEN [gq |-> [gq EXCEPT ![g] = 1], inner |-> <<<<>>>>, id |-> 1]
    ELSE [gq |-> [gq EXCEPT ![g] = 1], inner |-> inn, id |-> 1]

\* CrackTrackClient::get_queue run by one task to completion: the entry of the
\* guild, created (a new, empty CrackTrackQueue) when there is none.
get_queue(gq, inn, g) ==
    IF gq[g] # 0
    THEN [gq |-> gq, inner |-> inn, id |-> gq[g]]
    ELSE [gq |-> [gq EXCEPT ![g] = Len(inn) + 1],
          inner |-> Append(inn, <<>>), id |-> Len(inn) + 1]

\* A track the transport holds: mode "play" until it ends, errors or is
\* stopped; ev holds the events fired for it and not yet delivered; adv counts
\* the callbacks run for it that dequeued and started a next track.  Every
\* track of this specification carries an EnhancedTrackEndNotifier and an
\* EnhancedTrackErrorNotifier (is_looping false).  A track that is done and
\* has no undelivered event is forgotten.
NewTrack(u) == [url |-> u, mode |-> "play", ev |-> {}, adv |-> 0, loop |-> FALSE]

Playing(ts) == {i \in 1..Len(ts) : ts[i].mode = "play"}

Held(t) == t.mode = "play" \/ t.ev # {}

Forget(ts) == SelectSeq(ts, Held)

\* Call::stop: every playing track is stopped; TrackEvent::End fires for a
\* track stopped by user code.
StopAll(ts) ==
    [i \in 1..Len(ts) |->
        IF ts[i].mode = "play" THEN [ts[i] EXCEPT !.mode = "done", !.ev = {"end"}]
        ELSE ts[i]]

\* The notifier join registers: count 0, the guild's configured timeout, and
\* the guild's last-activity cell (shared, so it is not a field here).
NewNotifier(info) == [count |-> 0, idle_timeout |-> info.timeout_minutes]

\* ChannelDurationNotifier::update_activity run for every notifier among the
\* Call's global events, in order: last_activity := that notifier's count.
update_activity(info, ns) ==
    IF ns = <<>> \/ info = None THEN info
    ELSE Some([info[1] EXCEPT !.last_activity = ns[Len(ns)].count])

\* play_next_from_queue's activity update: last_activity := last_activity + 1.
bump_last_activity(info) ==
    IF info = None THEN info
    ELSE Some([info[1] EXCEPT !.last_activity = info[1].last_activity + 1])

\* play_next_from_queue registering the track-end callback alone.
play_next_from_queue_end_only(q, info) ==
    LET r == dequeue(q) IN
    IF r.ret # None
    THEN [q |-> r.q, started |-> r.ret, info |-> bump_last_activity(info),
          msgs |-> <<MsgNowPlaying>>, cmds |-> <<"play">>, deq |-> 1,
          handlers |-> {"End"}, at |-> q]
    ELSE [q |-> q, started |-> None, info |-> info, msgs |-> <<>>, cmds |-> <<>>,
          deq |-> 0, handlers |-> {}, at |-> q]

\* play_next_from_queue: dequeue, and when there was a track hand it to the
\* transport, bump the activity, register both callbacks, announce it.
play_next_from_queue(q, info) ==
    LET r == dequeue(q) IN
    IF r.ret # None
    THEN [q |-> r.q, started |-> r.ret, info |-> bump_last_activity(info),
          msgs |-> <<MsgNowPlaying>>, cmds |-> <<"play">>, deq |-> 1,
          handlers |-> {"End", "Error"}, at |-> q]
    ELSE [q |-> q, started |-> None, info |-> info, msgs |-> <<>>, cmds |-> <<>>,
          deq |-> 0, handlers |-> {}, at |-> q]

Nothing(q, info) ==
    [q |-> q, started |-> None, info |-> info, msgs |-> <<>>, cmds |-> <<>>,
     deq |-> 0, handlers |-> {}, at |-> q]

\* EnhancedTrackEndNotifier::act without the else of the emptiness test: the
\* queue-finished announcement follows the now-playing one.
EndActAnnouncesFinish(hasq, q, hascall, info, ns, loop) ==
    IF ~hasq THEN Nothing(q, info)
    ELSE IF ~is_empty(q)
    THEN IF ~hascall THEN Nothing(q, info)
         ELSE LET r == dequeue(q) IN
              IF r.ret = None THEN Nothing(q, info)
              ELSE [q |-> r.q, started |-> r.ret, info |-> update_activity(info, ns),
                    msgs |-> <<MsgNowPlaying, MsgFinished>>, cmds |-> <<"play">>,
                    deq |-> 1, handlers |-> {"End", "Error"}, at |-> q]
    ELSE IF loop
         THEN [Nothing(q, info) EXCEPT !.msgs = <<MsgLoop>>]
         ELSE [Nothing(q, info) EXCEPT !.msgs = <<MsgFinished>>]

\* EnhancedTrackEndNotifier::act that stops the ended track before it plays
\* the next one, as the error handler does.
EndActStopsFirst(hasq, q, hascall, info, ns, loop) ==
    IF ~hasq THEN Nothing(q, info)
    ELSE IF ~is_empty(q)
    THEN IF ~hascall THEN Nothing(q, info)
         ELSE LET r == dequeue(q) IN
              IF r.ret = None THEN Nothing(q, info)
              ELSE [q |-> r.q, started |-> r.ret, info |-> update_activity(info, ns),
                    msgs |-> <<MsgNowPlaying>>, cmds |-> <<"stop", "play">>,
                    deq |-> 1, handlers |-> {"End", "Error"}, at |-> q]
    ELSE IF loop
         THEN [Nothing(q, info) EXCEPT !.msgs = <<MsgLoop>>]
         ELSE [Nothing(q, info) EXCEPT !.msgs = <<MsgFinished>>]

\* EnhancedTrackEndNotifier::act.  hasq: the guild has a registry entry; q its
\* entries; hascall: songbird has a Call; loop: self.is_looping.
EndAct(hasq, q, hascall, info, ns, loop) ==
    IF ~hasq THEN Nothing(q, info)
    ELSE IF ~is_empty(q)
    THEN IF ~hascall THEN Nothing(q, info)
         ELSE LET r == dequeue(q) IN
              IF r.ret = None THEN Nothing(q, info)
              ELSE [q |-> r.q, started |-> r.ret, info |-> update_activity(info, ns),
                    msgs |-> <<MsgNowPlaying>>, cmds |-> <<"play">>, deq |-> 1,
                    handlers |-> {"End", "Error"}, at |-> q]
    ELSE IF loop
         THEN [Nothing(q, info) EXCEPT !.msgs = <<MsgLoop>>]
         ELSE [Nothing(q, info) EXCEPT !.msgs = <<MsgFinished>>]

ErrorActNoErrorHandler(hasq, q, hascall, info, ns, loop) ==
    LET e == EndAct(hasq, q, hascall, info, ns, loop) IN
    [e EXCEPT !.msgs = <<MsgError>> \o e.msgs, !.cmds = <<"stop">> \o e.cmds,
              !.handlers = e.handlers \ {"Error"}]

\* EnhancedTrackErrorNotifier::act: the error message, track.stop(), then the
\* handler's own copy of the continuation.
ErrorAct(hasq, q, hascall, info, ns, loop) ==
    LET pre == [Nothing(q, info) EXCEPT !.msgs = <<MsgError>>, !.cmds = <<"stop">>] IN
    IF ~hasq THEN pre
    ELSE IF ~is_empty(q)
    THEN IF ~hascall THEN pre
         ELSE LET r == dequeue(q) IN
              IF r.ret = None THEN pre
              ELSE [q |-> r.q, started |-> r.ret, info |-> update_activity(info, ns),
                    msgs |-> <<MsgError, MsgNowPlaying>>, cmds |-> <<"stop", "play">>,
                    deq |-> 1, handlers |-> {"End", "Error"}, at |-> q]
    ELSE IF loop
         THEN [pre EXCEPT !.msgs = <<MsgError, MsgLoop>>]
         ELSE [pre EXCEPT !.msgs = <<MsgError, MsgFinished>>]

HasQ == guild_queues[G] # 0
Q == IF HasQ THEN inner[guild_queues[G]] ELSE <<>>

Times(msgs, m) == Cardinality({i \in 1..Len(msgs) : msgs[i] = m})

\* The state after a step with effect e (of a callback or of a command's
\* play_next_from_queue) on the tracks ts, the registry gq and the queues inn.
Apply(e, ts, gq, inn, id) ==
    /\ e.started = None \/ Len(Forget(ts)) < MaxLive
    /\ e.info = None \/ e.info[1].last_activity <= MaxTick + 1
    /\ guild_queues' = gq
    /\ inner' = IF id = 0 THEN inn ELSE [inn EXCEPT ![id] = e.q]
    /\ tracks' = IF e.started = None THEN Forget(ts)
                 ELSE Append(Forget(ts), NewTrack(e.started[1]))
    /\ idle_info' = e.info
    /\ fin' = IF e.started # None THEN 0 ELSE fin + Times(e.msgs, MsgFinished)
    /\ UNCHANGED <<enqLog, deqLog, pure, task, display>>

\* n: the advances callbacks of the same track made before this one.
\* pre: the guild's entries before the step.
Observed(op, e, sig, n) ==
    [NoOp EXCEPT !.op = op, !.sig = sig, !.msgs = e.msgs, !.cmds = e.cmds,
                 !.started = e.started, !.deq = e.deq, !.n = n, !.pre = Q,
                 !.at = e.at, !.hnd = e.handlers,
                 !.live = Cardinality(Playing(tracks))]

Observe(op, e, sig, n) == last' = Observed(op, e, sig, n)

Init ==
    /\ guild_queues = [g \in {G} |-> 0]
    /\ inner = <<>>
    /\ last = NoOp
    /\ enqLog = <<>>
    /\ deqLog = <<>>
    /\ pure = FALSE
    /\ InitProtocolIdle
    /\ task = <<>>
    /\ display = <<>>

\* join: on success the idle info's last activity is reset to 0 (the entry
\* is created with the default timeout when absent) and a periodic notifier is
\* added to the Call's global events.  ok: the caller is in a voice channel
\* and the transport joined.
Join(ok) ==
    /\ Len(notifiers) < MaxNotifiers
    /\ IF ok
       THEN LET info == IF idle_info = None
                        THEN [timeout_minutes |-> DefaultTimeout, last_activity |-> 0]
                        ELSE [idle_info[1] EXCEPT !.last_activity = 0] IN
            /\ call' = TRUE
            /\ idle_info' = Some(info)
            /\ notifiers' = Append(notifiers, NewNotifier(info))
            /\ last' = [NoOp EXCEPT !.op = "join", !.sig = "joined",
                                    !.live = Cardinality(Playing(tracks))]
       ELSE /\ UNCHANGED <<call, idle_info, notifiers>>
            /\ last' = [NoOp EXCEPT !.op = "join", !.sig = "failed",
                                    !.live = Cardinality(Playing(tracks))]
    /\ UNCHANGED <<guild_queues, inner, enqLog, deqLog, pure, task, display, tracks, fin>>

\* Songbird::remove: the Call is dropped, and with it its tracks, their
\* undelivered events and its global events.
Dropped(ts) == [i \in 1..Len(ts) |-> [ts[i] EXCEPT !.mode = "done", !.ev = {}]]

\* leave: with a Call, remove it; the queue is not touched.
Leave ==
    /\ IF call
       THEN /\ call' = FALSE
            /\ tracks' = Forget(Dropped(tracks))
            /\ notifiers' = <<>>
            /\ last' = [NoOp EXCEPT !.op = "leave", !.sig = "left", !.pre = Q,
                                    !.live = Cardinality(Playing(tracks))]
       ELSE /\ UNCHANGED <<call, tracks, notifiers>>
            /\ last' = [NoOp EXCEPT !.op = "leave", !.sig = "not in voice", !.pre = Q]
    /\ UNCHANGED <<guild_queues, inner, enqLog, deqLog, pure, task, display, idle_info, fin>>

\* ------------------------------------------------- query resolution
\* A Result is Ok with a value or Err with an error; a Result<ResolvedTrack>
\* carries a sequence of one track.  A resolved track is identified by its
\* URL.
Ok(v) == [ok |-> TRUE, val |-> v, err |-> ""]
Err(e) == [ok |-> FALSE, val |-> <<>>, err |-> e]

\* The keywords a search is made with, and the keyword lists of a batch.
Keywords == {1, 2}
KeywordLists == {<<>>, <<2>>, <<2, 1>>, <<1, 2, 1>>}

\* yt_client.search_one of a keyword: the collaborator failed, it found no
\* video, or it found the video of a URL.
SearchErr == -1
SearchNone == 0
SearchOutcomes == {SearchErr, SearchNone} \cup CmdUrls

\* The collaborator of one call.  S: the outcome of search_one by keyword;
\* V: whether Video::new and get_info succeed, by URL.
Searches == [Keywords -> SearchOutcomes]
Videos == [CmdUrls -> BOOLEAN]

\* RustyYTPlaylist::get(url, limit): an error, or the videos of the playlist
\* (at most the limit).
PlaylistFetches == {Err("VideoError")} \cup {Ok(v) : v \in PlaylistChoices}

\* A query: its variant and its arguments (URLs or keywords), as a sequence.
Query(type, arg) == [type |-> type, arg |-> arg]

\* The queries resolution is called with: one of every variant the match of
\* resolve_query_to_tracks names, and one it does not.
Queries ==
    {Query("VideoLink", <<u>>) : u \in CmdUrls}
    \cup {Query("Keywords", <<k>>) : k \in Keywords}
    \cup {Query("PlaylistLink", <<>>)}
    \cup {Query("KeywordList", ks) : ks \in KeywordLists}
    \cup {Query("SpotifyTracks", ks) : ks \in {<<>>, <<1, 2>>}}
    \cup {Query("NewYoutubeDl", <<u>>) : u \in CmdUrls}
    \cup {Query("File", <<>>)}

\* resolve_url: Video::new_with_options(url)?, get_info()?, then the track.
resolve_url(url, V) == IF V[url] THEN Ok(<<url>>) ELSE Err("VideoError")

\* resolve_track.
resolve_track(query, S, V) ==
    CASE query.type = "VideoLink" -> resolve_url(query.arg[1], V)
      [] query.type = "Keywords" ->
            IF S[query.arg[1]] = SearchErr THEN Err("VideoError")
            ELSE IF S[query.arg[1]] = SearchNone THEN Err("NotFound")
            ELSE resolve_url(S[query.arg[1]], V)
      [] OTHER -> Err("UnknownQueryType")

\* A resolve_track_many that skips the queries that fail.
RECURSIVE resolve_track_many_partial(_, _, _)
resolve_track_many_partial(queries, S, V) ==
    IF queries = <<>> THEN Ok(<<>>)
    ELSE LET track == resolve_track(Head(queries), S, V)
             rest == resolve_track_many_partial(Tail(queries), S, V) IN
         IF track.ok THEN Ok(track.val \o rest.val) ELSE rest

\* resolve_track_many: resolve the queries in order, return the first error
\* (the ? in the loop), else the tracks in the order of the queries.
RECURSIVE resolve_track_many(_, _, _)
resolve_track_many(queries, S, V) ==
    IF queries = <<>> THEN Ok(<<>>)
    ELSE LET track == resolve_track(Head(queries), S, V) IN
         IF ~track.ok THEN track
         ELSE LET rest == resolve_track_many(Tail(queries), S, V) IN
              IF ~rest.ok THEN rest ELSE Ok(track.val \o rest.val)

\* A resolve_playlist_limit that reports a playlist without entries as not
\* found.
resolve_playlist_limit_not_found(P) ==
    IF ~P.ok THEN P
    ELSE IF P.val = <<>> THEN Err("NotFound")
    ELSE Ok([i \in 1..Len(P.val) |-> P.val[i]])

\* resolve_playlist_limit: the fetch's error, else one track per video of the
\* playlist, in order, carrying the video's URL.
resolve_playlist_limit(P) ==
    IF ~P.ok THEN P ELSE Ok([i \in 1..Len(P.val) |-> P.val[i]])

\* resolve_query_to_tracks.
resolve_query_to_tracks(query, S, V, P) ==
    CASE query.type \in {"VideoLink", "Keywords"} -> resolve_track_many(<<query>>, S, V)
      [] query.type = "PlaylistLink" -> resolve_playlist_limit(P)
      [] query.type \in {"KeywordList", "SpotifyTracks"} ->
            resolve_track_many([i \in 1..Len(query.arg) |->
                                    Query("Keywords", <<query.arg[i]>>)], S, V)
      [] query.type = "NewYoutubeDl" -> resolve_url(query.arg[1], V)
      [] OTHER -> Err("UnknownQueryType")

\* An enqueue_query that makes room for the track before it resolves it.
enqueue_query_push_first(gq, inn, g, query, S, V) ==
    LET track == resolve_track(query, S, V)
        R == get_queue(gq, inn, g) IN
    [gq |-> R.gq,
     inner |-> [R.inner EXCEPT ![R.id] =
                    push_back(@, IF track.ok THEN track.val[1] ELSE 1)],
     ret |-> track]

\* CrackTrackClient::enqueue_query: resolve_track(query)?, then push_back on
\* the guild's queue (get_queue creates it when absent).
enqueue_query(gq, inn, g, query, S, V) ==
    LET track == resolve_track(query, S, V) IN
    IF ~track.ok THEN [gq |-> gq, inner |-> inn, ret |-> track]
    ELSE LET R == get_queue(gq, inn, g) IN
         [gq |-> R.gq,
          inner |-> [R.inner EXCEPT ![R.id] = push_back(@, track.val[1])],
          ret |-> track]

\* ResolvedTrack::new(QueryType::VideoLink(url)): the track of a URL that was
\* not resolved; its metadata is None.
ResolvedTrack_new(u) == [url |-> u, metadata |-> None]

\* queue <url>: get (or create) the guild's queue; with a Call: enqueue, and
\* when the queue then has length 1 play_next_from_queue.
QueueCmd(u) ==
    LET R == get_queue(guild_queues, inner, G)
        track == ResolvedTrack_new(u)
        q1 == enqueue(R.inner[R.id], track.url)
        e == IF Len(q1) = 1 THEN play_next_from_queue(q1, idle_info)
             ELSE Nothing(q1, idle_info) IN
    IF call
    THEN /\ Len(R.inner[R.id]) < MaxQueue
         /\ Apply(e, tracks, R.gq, R.inner, R.id)
         /\ last' = [Observed("queue", e, "added", 0) EXCEPT
                         !.arg = Some(u), !.meta = track.metadata]
         /\ UNCHANGED <<call, notifiers>>
    ELSE /\ guild_queues' = R.gq
         /\ inner' = R.inner
         /\ last' = [NoOp EXCEPT !.op = "queue", !.sig = "not in voice"]
         /\ UNCHANGED <<enqLog, deqLog, pure, task, display, call, tracks, notifiers, idle_info, fin>>

\* The replies of the playlist command that add nothing.
MsgInvalidPlaylistUrl == "Must provide a valid YouTube playlist URL"
MsgNoTracks == "No tracks found in the playlist"
MsgPlaylistError == "Error processing playlist"

\* playlist <url>.  valid: the URL starts with "http" and contains "list=";
\* P: what the playlist fetch returns.  A URL that is not valid is refused
\* before the guild's queue is looked up.  Otherwise get (or create) the
\* queue and, with a Call, resolve the playlist: on an error or on no tracks
\* reply so; else enqueue every track, and when the queue then holds exactly
\* those tracks play_next_from_queue.
PlaylistCmd(valid, P) ==
    LET R == get_queue(guild_queues, inner, G)
        res == resolve_query_to_tracks(Query("PlaylistLink", <<>>),
                                       [k \in Keywords |-> SearchNone],
                                       [u \in CmdUrls |-> FALSE], P)
        v == res.val
        q1 == R.inner[R.id] \o v
        e == IF Len(q1) = Len(v) THEN play_next_from_queue(q1, idle_info)
             ELSE Nothing(q1, idle_info) IN
    IF ~valid
    THEN /\ last' = [NoOp EXCEPT !.op = "playlist", !.sig = MsgInvalidPlaylistUrl,
                                 !.pre = Q]
         /\ UNCHANGED <<guild_queues, inner, enqLog, deqLog, pure, task, display, call,
                        tracks, notifiers, idle_info, fin>>
    ELSE IF call /\ res.ok /\ v # <<>>
    THEN /\ Len(q1) <= MaxQueue
         /\ Apply(e, tracks, R.gq, R.inner, R.id)
         /\ last' = [Observed("playlist", e, "added", 0) EXCEPT
                         !.fetch = Some(P), !.res = Some(res)]
         /\ UNCHANGED <<call, notifiers>>
    ELSE /\ guild_queues' = R.gq
         /\ inner' = R.inner
         /\ last' = IF ~call
                    THEN [NoOp EXCEPT !.op = "playlist", !.sig = "not in voice", !.pre = Q]
                    ELSE [NoOp EXCEPT !.op = "playlist",
                                      !.sig = IF res.ok THEN MsgNoTracks
                                              ELSE MsgPlaylistError,
                                      !.pre = Q, !.fetch = Some(P), !.res = Some(res)]
         /\ UNCHANGED <<enqLog, deqLog, pure, task, display, call, tracks, notifiers, idle_info, fin>>

\* skip: with a Call: stop every track, dequeue, and when the queue is then
\* not empty play_next_from_queue.
SkipCmd ==
    LET R == get_queue(guild_queues, inner, G)
        r == dequeue(R.inner[R.id])
        p == IF ~is_empty(r.q) THEN play_next_from_queue(r.q, idle_info)
             ELSE Nothing(r.q, idle_info)
        e == [p EXCEPT !.cmds = <<"stop">> \o p.cmds, !.deq = Len(r.ret) + p.deq] IN
    /\ call
    /\ Apply(e, StopAll(tracks), R.gq, R.inner, R.id)
    /\ Observe("skip", e, "skipped", 0)
    /\ UNCHANGED <<call, notifiers>>

\* stop: with a Call: stop every track and clear the queue.
StopCmd ==
    LET R == get_queue(guild_queues, inner, G)
        e == [Nothing(clear(R.inner[R.id]), idle_info) EXCEPT !.cmds = <<"stop">>] IN
    IF call
    THEN /\ Apply(e, StopAll(tracks), R.gq, R.inner, R.id)
         /\ Observe("stop", e, "cleared", 0)
         /\ UNCHANGED <<call, notifiers>>
    ELSE /\ last' = [NoOp EXCEPT !.op = "stop", !.sig = "not in voice", !.pre = Q]
         /\ UNCHANGED <<guild_queues, inner, enqLog, deqLog, pure, task, display, call, tracks,
                        notifiers, idle_info, fin>>

\* shuffle: with a Call: take the head off, shuffle the rest, put the head
\* back, stop every track, and when the queue is not empty
\* play_next_from_queue.
ShuffleCmd ==
    LET R == get_queue(guild_queues, inner, G)
        q0 == R.inner[R.id]
        cur == IF ~is_empty(q0) THEN dequeue(q0) ELSE [q |-> q0, ret |-> None] IN
    /\ call
    /\ \E s \in shuffle(cur.q) :
         LET q1 == IF cur.ret # None THEN push_front(s, cur.ret[1]) ELSE s
             p == IF ~is_empty(q1) THEN play_next_from_queue(q1, idle_info)
                  ELSE Nothing(q1, idle_info)
             e == [p EXCEPT !.cmds = <<"stop">> \o p.cmds] IN
         /\ Apply(e, StopAll(tracks), R.gq, R.inner, R.id)
         /\ Observe("shuffle_cmd", e, "shuffled", 0)
    /\ UNCHANGED <<call, notifiers>>

MsgQueueEmpty == "The queue is empty."
MsgCurrentQueue == "**Current Queue:**"

\* String::is_empty of a display: the empty string is one empty line.
display_is_empty(d) == d = <<Line("", None)>>

\* show_queue: build_display on a clone of the guild's queue, then the reply:
\* the empty message when the display string is empty, the listing otherwise.
ShowQueueCmd ==
    LET R == get_queue(guild_queues, inner, G)
        d == get_display(build_display(R.inner[R.id], Default.playing)) IN
    /\ guild_queues' = R.gq
    /\ inner' = R.inner
    /\ last' = [NoOp EXCEPT !.op = "show_queue", !.pre = R.inner[R.id], !.ret = d,
                            !.live = Cardinality(Playing(tracks)),
                            !.sig = IF display_is_empty(d) THEN MsgQueueEmpty
                                    ELSE MsgCurrentQueue]
    /\ UNCHANGED <<enqLog, deqLog, pure, task, display, pvars>>

\* set_idle_timeout <minutes>: the entry's timeout (created with last
\* activity 0 when absent).
SetIdleTimeout(m) ==
    /\ idle_info' = IF idle_info = None
                    THEN Some([timeout_minutes |-> m, last_activity |-> 0])
                    ELSE Some([idle_info[1] EXCEPT !.timeout_minutes = m])
    /\ last' = [NoOp EXCEPT !.op = "set_idle_timeout", !.timeout = m]
    /\ UNCHANGED <<guild_queues, inner, enqLog, deqLog, pure, task, display, call, tracks, notifiers, fin>>

\* The callback of track i has run with effect e; started: it began a track.
Ran(ts, i, e, mode, ev) ==
    [ts EXCEPT ![i] = [@ EXCEPT !.mode = mode, !.ev = ev,
                                !.adv = IF e.started # None THEN @ + 1 ELSE @]]

\* TrackEvent::End of a track that played to its end.
TrackEnd(i) ==
    LET e == EndAct(HasQ, Q, call, idle_info, notifiers, tracks[i].loop) IN
    /\ call
    /\ i \in Playing(tracks)
    /\ Apply(e, Ran(tracks, i, e, "done", {}), guild_queues, inner, guild_queues[G])
    /\ Observe("end", e, "", tracks[i].adv)
    /\ UNCHANGED <<call, notifiers>>

\* TrackEvent::End of a track that user code stopped.
TrackStopped(i) ==
    LET e == EndAct(HasQ, Q, call, idle_info, notifiers, tracks[i].loop) IN
    /\ call
    /\ i \in 1..Len(tracks)
    /\ "end" \in tracks[i].ev
    /\ Apply(e, Ran(tracks, i, e, "done", {}), guild_queues, inner, guild_queues[G])
    /\ Observe("end", e, "stopped", tracks[i].adv)
    /\ UNCHANGED <<call, notifiers>>

\* TrackEvent::Error of a playing track.  fires: whether the transport fires
\* TrackEvent::End for the track the handler stops.
TrackError(i, fires) ==
    LET e == ErrorAct(HasQ, Q, call, idle_info, notifiers, tracks[i].loop) IN
    /\ call
    /\ i \in Playing(tracks)
    /\ Apply(e, Ran(tracks, i, e, "done", IF fires THEN {"end"} ELSE {}),
             guild_queues, inner, guild_queues[G])
    /\ Observe("error", e, "", tracks[i].adv)
    /\ UNCHANGED <<call, notifiers>>

\* The idle minutes by a wrapping subtraction of machine words.
IdleTimeWrapping(current_time, last_activity) ==
    (current_time - last_activity) % 256

\* current_time.saturating_sub(last_activity).
IdleTime(current_time, last_activity) ==
    IF current_time >= last_activity THEN current_time - last_activity ELSE 0

EvictsLate(idle_timeout, idle_time) == idle_timeout > 0 /\ idle_time > idle_timeout

\* The idle check of ChannelDurationNotifier::act.
Evicts(idle_timeout, idle_time) == idle_timeout > 0 /\ idle_time >= idle_timeout

\* ChannelDurationNotifier::act of notifier k: count the minute; when the
\* guild has been idle for the timeout, announce it, remove the Call and
\* cancel the periodic event.
Tick(k) ==
    LET nt == notifiers[k]
        current_time == nt.count + 1
        la == idle_info[1].last_activity
        idle_time == IdleTime(current_time, la) IN
    /\ call
    /\ k \in 1..Len(notifiers)
    /\ nt.count < MaxTick
    /\ IF Evicts(nt.idle_timeout, idle_time)
       THEN /\ call' = FALSE
            /\ tracks' = Forget(Dropped(tracks))
            /\ notifiers' = <<>>
            /\ last' = [NoOp EXCEPT !.op = "tick", !.sig = "Cancel", !.cnt = current_time,
                                    !.la = la, !.timeout = nt.idle_timeout,
                                    !.msgs = <<"Leaving channel due to inactivity">>,
                                    !.live = Cardinality(Playing(tracks))]
       ELSE /\ notifiers' = [notifiers EXCEPT ![k].count = current_time]
            /\ last' = [NoOp EXCEPT !.op = "tick", !.sig = "None", !.cnt = current_time,
                                    !.la = la, !.timeout = nt.idle_timeout,
                                    !.msgs = <<"I've been in this channel">>,
                                    !.live = Cardinality(Playing(tracks))]
            /\ UNCHANGED <<call, tracks>>
    /\ UNCHANGED <<guild_queues, inner, enqLog, deqLog, pure, task, display, idle_info, fin>>

Next ==
    \/ \E ok \in BOOLEAN : Join(ok)
    \/ Leave
    \/ \E u \in CmdUrls : QueueCmd(u)
    \/ \E valid \in BOOLEAN, P \in PlaylistFetches : PlaylistCmd(valid, P)
    \/ SkipCmd
    \/ StopCmd
    \/ ShuffleCmd
    \/ ShowQueueCmd
    \/ \E i \in 1..MaxLive : TrackEnd(i)
    \/ \E i \in 1..MaxLive : TrackStopped(i)
    \/ \E i \in 1..MaxLive, fires \in BOOLEAN : TrackError(i, fires)

\* The commands and track callbacks of one guild; the minutes of the
\* periodic notifier are followed by SpecIdle.
Spec == Init /\ [][Next]_vars

\* ------------------------------------- SpecIdle: the periodic tick
NextIdle ==
    \/ \E ok \in BOOLEAN : Join(ok)
    \/ Leave
    \/ QueueCmd(1)
    \/ PlaylistCmd(TRUE, Ok(<<1, 2>>))
    \/ StopCmd
    \/ \E m \in TimeoutChoices : SetIdleTimeout(m)
    \/ \E i \in 1..MaxLive : TrackEnd(i)
    \/ \E i \in 1..MaxLive : TrackStopped(i)
    \/ \E i \in 1..MaxLive, fires \in BOOLEAN : TrackError(i, fires)
    \/ \E k \in 1..MaxNotifiers : Tick(k)

\* The periodic notifier and the idle timeout of one guild, with the commands
\* and callbacks that start and end tracks.
SpecIdle == Init /\ [][NextIdle]_vars

\* ------------------------------- SpecReg: tasks in get_queue
\* The guilds and the tasks of the registry specification.
NumGuilds == 2
NumTasks == 2
\* Largest number of CrackTrackQueue values created in one behaviour.
MaxQueues == 3
\* Longest queue a task enqueues into.
MaxRegLen == 2

Guilds == 1..NumGuilds
Tasks == 1..NumTasks

IdleTask == [pc |-> "idle", g |-> 0, h |-> 0]

InitReg ==
    /\ guild_queues = [g \in Guilds |-> 0]
    /\ inner = <<>>
    /\ last = NoOp
    /\ enqLog = <<>>
    /\ deqLog = <<>>
    /\ pure = FALSE
    /\ InitProtocolIdle
    /\ task = [t \in Tasks |-> IdleTask]
    /\ display = <<>>

\* get_queue, first step: guild_queues.get(&guild).  With an entry the task
\* returns a clone of it; without, it goes on to create one.
RegLookup(t, g) ==
    /\ task[t].pc = "idle"
    /\ task' = [task EXCEPT ![t] =
                   IF guild_queues[g] # 0
                   THEN [pc |-> "have", g |-> g, h |-> guild_queues[g]]
                   ELSE [pc |-> "insert", g |-> g, h |-> 0]]
    /\ UNCHANGED <<guild_queues, inner, last, enqLog, deqLog, pure, pvars, display>>

\* get_queue, second step: a new CrackTrackQueue is inserted under the guild
\* (DashMap::insert replaces an entry made meanwhile) and a clone of the new
\* queue is returned.
RegInsert(t) ==
    /\ task[t].pc = "insert"
    /\ Len(inner) < MaxQueues
    /\ inner' = Append(inner, <<>>)
    /\ guild_queues' = [guild_queues EXCEPT ![task[t].g] = Len(inner) + 1]
    /\ task' = [task EXCEPT ![t] = [pc |-> "have", g |-> task[t].g, h |-> Len(inner) + 1]]
    /\ UNCHANGED <<last, enqLog, deqLog, pure, pvars, display>>

\* The caller enqueues a track through the handle get_queue returned.
RegEnqueue(t, u) ==
    /\ task[t].pc = "have"
    /\ Len(inner[task[t].h]) < MaxRegLen
    /\ inner' = [inner EXCEPT ![task[t].h] = push_back(@, u)]
    /\ UNCHANGED <<guild_queues, task, last, enqLog, deqLog, pure, pvars, display>>

\* The caller drops the handle.
RegDone(t) ==
    /\ task[t].pc = "have"
    /\ task' = [task EXCEPT ![t] = IdleTask]
    /\ UNCHANGED <<guild_queues, inner, last, enqLog, deqLog, pure, pvars, display>>

NextReg ==
    \/ \E t \in Tasks, g \in Guilds : RegLookup(t, g)
    \/ \E t \in Tasks : RegInsert(t)
    \/ \E t \in Tasks, u \in CmdUrls : RegEnqueue(t, u)
    \/ \E t \in Tasks : RegDone(t)

SpecReg == InitReg /\ [][NextReg]_vars

\* ------------------------------------------------------------ claims

\* C1: FIFO.  While only enqueue and dequeue have run on a queue that was
\* created empty, the tracks returned by dequeue followed by the tracks still
\* queued are exactly the tracks enqueued, in enqueue order; so n dequeues
\* after enqueue(t1..tn) return t1..tn and leave the queue empty.
C1_Fifo ==
    pure => /\ enqLog = deqLog \o Q1
            /\ (Len(deqLog) = Len(enqLog) => Q1 = <<>>)

C1_Witness ==
    /\ pure
    /\ enqLog = <<1, 2, 3>>
    /\ deqLog = <<1, 2, 3>>
    /\ last.op = "dequeue"
    /\ Q1 = <<>>

\* C5: shuffle conservation.  After one or several shuffles in a row the
\* queue holds each URL as often as before the first of them, and has the
\* same length.
C5_ShuffleConserves ==
    last.op = "shuffle" => /\ SameTracks(Q1, last.pre)
                           /\ Len(Q1) = Len(last.pre)

C5_Witness ==
    /\ last.op = "shuffle"
    /\ last.n = 2
    /\ last.pre = <<1, 2, 3>>
    /\ Q1 = <<3, 1, 2>>

\* C2: auto-start and advance.  A queue command that finds a track playing
\* starts nothing and leaves its track queued behind the tracks already
\* queued (of A, B, C queued into an idle guild only A is handed to the
\* transport); and a TrackEnd that finds the queue not empty starts its head
\* and leaves the rest queued.
C2_AutoStartAndAdvance ==
    /\ (last.op = "queue" /\ last.sig = "added" /\ last.live > 0) =>
           (last.started = None /\ Q = last.pre \o last.arg)
    /\ (last.op = "end" /\ last.sig = "" /\ last.pre # <<>>) =>
           (last.started = Some(Head(last.pre)) /\ Q = Tail(last.pre))

\* C3: get-or-create is atomic.  Every handle a task got from get_queue(guild)
\* is the queue the registry holds for that guild, and no more queues were
\* created than there are guilds with an entry.
C3_GetOrCreateAtomic ==
    /\ \A t \in DOMAIN task :
           task[t].pc = "have" => task[t].h = guild_queues[task[t].g]
    /\ Len(inner) <= Cardinality({g \in DOMAIN guild_queues : guild_queues[g] # 0})

\* C4: at most one advance per completed track.  A track-end or track-error
\* callback that dequeues and starts a track is the first callback of its
\* track to do so.
C4_OneAdvancePerTrack ==
    (last.op \in {"end", "error"} /\ last.started # None) => last.n = 0

\* C6: TrackError behaves like TrackEnd.  From the same registry entry, queue
\* contents, session and looping flag, the TrackError callback leaves the same
\* queue, hands the same track to the transport with the same callbacks
\* registered and leaves the same last-activity value as the TrackEnd callback.
C6_ErrorLikeEnd ==
    \A loop \in BOOLEAN :
        LET e == EndAct(HasQ, Q, call, idle_info, notifiers, loop)
            x == ErrorAct(HasQ, Q, call, idle_info, notifiers, loop) IN
        /\ x.q = e.q
        /\ x.started = e.started
        /\ x.handlers = e.handlers
        /\ x.info = e.info
        /\ x.deq = e.deq

C6_Witness ==
    /\ last.op = "error"
    /\ last.pre = <<2, 3>>
    /\ last.started = Some(2)
    /\ Q = <<3>>

\* C7: queue finished exactly once.  Between two track starts at most one
\* "Queue finished." message is sent, and when it is sent no track is playing.
C7_QueueFinishedOnce ==
    /\ fin <= 1
    /\ Times(last.msgs, MsgFinished) > 0 => Playing(tracks) = {}

\* C8: idle eviction is self-cancelling.  A tick that finds the idle minutes
\* at or above a timeout T > 0 returns Cancel and leaves the guild without a
\* Call and without a periodic notifier; with the last activity at 0 no tick
\* before the T-th evicts; and a guild without a Call has no notifier left to
\* tick.
C8_IdleEvictionCancels ==
    /\ last.op = "tick" =>
          /\ (last.timeout > 0 /\ last.cnt - last.la >= last.timeout) =>
                 (last.sig = "Cancel" /\ ~call /\ notifiers = <<>>)
          /\ (last.la = 0 /\ last.cnt < last.timeout) =>
                 (last.sig = "None" /\ call /\ notifiers # <<>>)
    /\ ~call => notifiers = <<>>

C8_Witness ==
    /\ last.op = "tick"
    /\ last.sig = "Cancel"
    /\ last.timeout = 5
    /\ last.cnt = 5
    /\ last.la = 0
    /\ ~call

\* C9: idle eviction only from ConnectedIdle.  A tick that evicts found no
\* track playing.
C9_NoEvictionWhilePlaying ==
    (last.op = "tick" /\ last.sig = "Cancel") => last.live = 0

\* C10: leave/stop reaches Disconnected with a cleared queue.  After a leave
\* or a stop command the guild's queue is empty and the guild has no Call.
C10_LeaveStopDisconnectAndClear ==
    last.op \in {"leave", "stop"} => (Q = <<>> /\ ~call)

\* C11: loop restore.  A TrackEnd callback with the looping flag set that
\* finds the guild connected and its queue empty puts tracks back into the
\* queue and starts one, so that a track is playing afterwards.
C11_LoopRestores ==
    (call /\ HasQ /\ Q = <<>> /\ Playing(tracks) # {}) =>
        LET e == EndAct(HasQ, Q, call, idle_info, notifiers, TRUE) IN
        /\ e.started # None
        /\ "play" \in {e.cmds[i] : i \in 1..Len(e.cmds)}

\* C12: display after render.  get_display() called right after
\* build_display() on a queue holds the line of every track queued at that
\* moment, in queue order, and the line of no other track (so of no track that
\* was dequeued before), and is not the placeholder.
C12_DisplayAfterBuild ==
    (last.op = "get_display" /\ last.n = 1) =>
        /\ Shown(last.ret) = Q1
        /\ last.ret # EMPTY_QUEUE

C12_Witness ==
    /\ last.op = "get_display"
    /\ last.n = 1
    /\ enqLog = <<1, 2, 3>>
    /\ deqLog = <<1>>
    /\ Shown(last.ret) = <<2, 3>>

\* C13: the display is a cached snapshot.  A queue's display is the
\* placeholder when the queue is created, only build_display changes it, and
\* get_display returns the display field as it is.
C13_DisplayIsSnapshot ==
    /\ display = <<EMPTY_QUEUE>>
    /\ [][/\ last'.op # "build_display" => display' = display
          /\ last'.op = "get_display" => last'.ret = display[1]]_vars

C13_Witness ==
    /\ last.op = "get_display"
    /\ last.n = 0
    /\ last.ret = build_display(<<1, 2>>, None)
    /\ Q1 = <<3>>

\* ------------------------- SpecClient: the queue methods of CrackTrackClient
InitClient ==
    /\ guild_queues = [g \in Guilds |-> 0]
    /\ inner = <<>>
    /\ last = NoOp
    /\ enqLog = <<>>
    /\ deqLog = <<>>
    /\ pure = FALSE
    /\ InitProtocolIdle
    /\ task = <<>>
    /\ display = <<>>

\* The display fields of the registry's entries after a get_queue with result
\* R: an entry it created has the display of CrackTrackQueue::new().
entry_displays(R) ==
    IF Len(R.inner) > Len(display) THEN Append(display, Default.display) ELSE display

\* CrackTrackClient::enqueue_track: push_back on the clone get_queue returns.
CEnqueueTrack(g, t) ==
    LET R == get_queue(guild_queues, inner, g) IN
    /\ Len(R.inner[R.id]) < MaxQueue
    /\ guild_queues' = R.gq
    /\ inner' = [R.inner EXCEPT ![R.id] = push_back(@, t)]
    /\ display' = entry_displays(R)
    /\ last' = [NoOp EXCEPT !.op = "client_enqueue_track", !.idx = g, !.arg = Some(t)]
    /\ UNCHANGED <<enqLog, deqLog, pure, pvars, task>>

\* CrackTrackClient::append_queue: one get_queue and push_back per track.
CAppendQueue(g, v) ==
    LET R == get_queue(guild_queues, inner, g) IN
    /\ Len(R.inner[R.id]) + Len(v) <= MaxQueue
    /\ guild_queues' = IF v = <<>> THEN guild_queues ELSE R.gq
    /\ inner' = IF v = <<>> THEN inner ELSE [R.inner EXCEPT ![R.id] = @ \o v]
    /\ display' = IF v = <<>> THEN display ELSE entry_displays(R)
    /\ last' = [NoOp EXCEPT !.op = "client_append_queue", !.idx = g, !.arg = v]
    /\ UNCHANGED <<enqLog, deqLog, pure, pvars, task>>

\* CrackTrackClient::build_display: build_display on the clone get_queue
\* returns; the clone, and the display built in it, is dropped at the end of
\* the statement.  ret: the display the clone held.
CBuildDisplay(g) ==
    LET R == get_queue(guild_queues, inner, g) IN
    /\ guild_queues' = R.gq
    /\ inner' = R.inner
    /\ display' = entry_displays(R)
    /\ last' = [NoOp EXCEPT !.op = "client_build_display", !.idx = g, !.pre = R.inner[R.id],
                            !.ret = build_display(R.inner[R.id], Default.playing)]
    /\ UNCHANGED <<enqLog, deqLog, pure, pvars, task>>

\* CrackTrackClient::get_display: get_display on the clone get_queue returns,
\* a copy of the registry's entry.  n = 1: the call before was build_display
\* for the same guild.
CGetDisplay(g) ==
    LET R == get_queue(guild_queues, inner, g) IN
    /\ guild_queues' = R.gq
    /\ inner' = R.inner
    /\ display' = entry_displays(R)
    /\ last' = [NoOp EXCEPT !.op = "client_get_display", !.idx = g, !.pre = R.inner[R.id],
                            !.ret = get_display(entry_displays(R)[R.id]),
                            !.n = IF last.op = "client_build_display" /\ last.idx = g
                                  THEN 1 ELSE 0]
    /\ UNCHANGED <<enqLog, deqLog, pure, pvars, task>>

\* The queue methods a command calls on the handle get_queue gives it.
QueueMethods ==
    {[op |-> o, i |-> 0, t |-> 0] : o \in {"dequeue", "clear", "shuffle"}}
    \cup {[op |-> "remove", i |-> i, t |-> 0] : i \in 0..1}
    \cup {[op |-> "insert", i |-> i, t |-> t] : i \in 0..1, t \in CmdUrls}

\* The entries a method can leave in a queue with entries q.
MethodResults(q, c) ==
    CASE c.op = "dequeue" -> {dequeue(q).q}
      [] c.op = "clear" -> {clear(q)}
      [] c.op = "shuffle" -> shuffle(q)
      [] c.op = "remove" -> {remove(q, c.i).q}
      [] OTHER -> {insert(q, c.i, c.t).q}

\* get_queue(g) and one queue method on the handle it returns.
CQueueMethod(g, c) ==
    LET R == get_queue(guild_queues, inner, g) IN
    /\ c.op = "insert" => Len(R.inner[R.id]) < MaxQueue
    /\ guild_queues' = R.gq
    /\ \E q \in MethodResults(R.inner[R.id], c) : inner' = [R.inner EXCEPT ![R.id] = q]
    /\ display' = entry_displays(R)
    /\ last' = [NoOp EXCEPT !.op = "queue_method", !.sig = c.op, !.idx = g,
                            !.pre = R.inner[R.id]]
    /\ UNCHANGED <<enqLog, deqLog, pure, pvars, task>>

NextClient ==
    \/ \E g \in Guilds, t \in CmdUrls : CEnqueueTrack(g, t)
    \/ \E g \in Guilds, v \in PlaylistChoices : CAppendQueue(g, v)
    \/ \E g \in Guilds : CBuildDisplay(g)
    \/ \E g \in Guilds : CGetDisplay(g)
    \/ \E g \in Guilds, c \in QueueMethods : CQueueMethod(g, c)

SpecClient == InitClient /\ [][NextClient]_vars

\* C14: registry-level render.  CrackTrackClient::get_display(guild) called
\* right after CrackTrackClient::build_display(guild) returns the display
\* built from the tracks queued for the guild, not the placeholder.
C14_ClientDisplayAfterBuild ==
    (last.op = "client_get_display" /\ last.n = 1) =>
        /\ last.ret = build_display(last.pre, None)
        /\ last.ret # EMPTY_QUEUE

\* The playing field of the guild queue's handles: CrackTrackQueue::default
\* sets it and no command or callback assigns it.
playing == Default.playing

\* C15: now_playing tracks the transport.  While a track handed to the
\* transport has not ended, the guild queue's playing field holds a track
\* that is playing and the display built from the queue names it; while no
\* track is playing the field is None.
C15_NowPlayingTracksTransport ==
    /\ Playing(tracks) # {} =>
          /\ \E i \in Playing(tracks) : playing = Some(tracks[i].url)
          /\ build_display(Q, playing)[1].track # None
    /\ Playing(tracks) = {} => playing = None

\* C16: no unresolved track reaches the transport.  A track the queue command
\* made and handed to the transport has metadata.
C16_NoUnresolvedTrackPlayed ==
    (last.op = "queue" /\ last.started # None) => last.meta # None

\* C17: out-of-range indices never fault.  get and remove with an index at or
\* past the length, and insert with an index past the length, return None or
\* do nothing, do not panic and leave the queue as it was.
C17_OutOfRangeNeverFaults ==
    /\ (last.op \in {"get", "remove"} /\ last.idx >= Len(last.pre)) =>
           (last.ret = None /\ last.sig # "panic" /\ Q1 = last.pre)
    /\ (last.op = "insert" /\ last.idx > Len(last.pre)) =>
           (last.sig # "panic" /\ Q1 = last.pre)

\* C18: empty dequeue is a value, not a fault.  dequeue() on an empty queue
\* returns None and leaves the queue empty: len() = 0 and is_empty() = true.
C18_EmptyDequeueIsNone ==
    (last.op = "dequeue" /\ last.pre = <<>>) =>
        /\ last.ret = None
        /\ len(Q1) = 0
        /\ is_empty(Q1)

C18_Witness ==
    /\ last.op = "dequeue"
    /\ last.pre = <<>>
    /\ last.ret = None
    /\ enqLog = <<1, 2>>
    /\ deqLog = <<1, 2>>


\* The continuation transitions: the start of playback by a queue or playlist
\* command, the End and Error callbacks of a track, the periodic tick.
Continuation == {"queue", "playlist", "end", "error", "tick"}

Advances == {"queue", "playlist", "skip", "shuffle_cmd", "end", "error"}

\* C21: each time play_next_from_queue, the TrackEnd callback or the
\* TrackError callback starts a track, it removes exactly one entry from the
\* guild's queue, the head it found, and that entry is the track handed to the
\* transport; a callback that starts no track removes nothing.
C21_OneDequeuePerAdvance ==
    /\ (last.op \in Advances /\ last.started # None) =>
           /\ last.at # <<>>
           /\ last.started = Some(Head(last.at))
           /\ Q = Tail(last.at)
    /\ (last.op \in {"queue", "playlist", "end", "error"} /\ last.started # None) =>
           last.deq = 1
    /\ (last.op \in {"end", "error"} /\ last.started = None) =>
           (last.deq = 0 /\ Q = last.pre)

C21_Witness ==
    /\ last.op = "end"
    /\ last.pre = <<2, 3>>
    /\ last.started = Some(2)
    /\ Q = <<3>>


\* C22: whenever a track starts, by play_next_from_queue of a command or by
\* an End/Error callback, the guild's last activity, which the idle check
\* reads, is the current count of the periodic tick.
C22_BumpToCurrentTick ==
    (last.op \in Advances /\ last.started # None /\ notifiers # <<>> /\ idle_info # None) =>
        idle_info[1].last_activity = notifiers[Len(notifiers)].count


\* The guild's last activity, 0 while it has no idle-timeout entry.
last_activity == IF idle_info = None THEN 0 ELSE idle_info[1].last_activity

\* C23: over join, track starts, ticks, leave and re-join, the guild's
\* last_activity never decreases.
C23_LastActivityMonotonic == [][last_activity' >= last_activity]_vars


\* C24: the idle-expiry decision.  For every timeout, tick count and last
\* activity within the bounds, and at every tick the guild reaches, the tick
\* evicts exactly when the timeout is positive and the count minus the last
\* activity is at least the timeout; a timeout of 0 never evicts; a last
\* activity beyond the count gives 0 idle minutes and no eviction.
C24_IdleExpiryDecision ==
    /\ \A t \in 0..(MaxTick + 1), c \in 1..(MaxTick + 1), la \in 0..(MaxTick + 2) :
           /\ Evicts(t, IdleTime(c, la)) <=> (t > 0 /\ c - la >= t)
           /\ la > c => IdleTime(c, la) = 0
    /\ last.op = "tick" =>
           /\ last.sig = "Cancel" <=> (last.timeout > 0 /\ last.cnt - last.la >= last.timeout)
           /\ last.timeout = 0 => last.sig = "None"
           /\ last.la > last.cnt => last.sig = "None"

C24_Witness ==
    /\ last.op = "tick"
    /\ last.timeout = 2
    /\ last.la > last.cnt
    /\ last.sig = "None"
    /\ call


\* ------------------------------- SpecResolve: query resolution
InitResolve == Init

\* resolve_query_to_tracks(query) with the collaborator S, V, P.
RResolve(query, S, V, P) ==
    /\ last' = [NoOp EXCEPT !.op = "resolve", !.query = Some(query),
                            !.res = Some(resolve_query_to_tracks(query, S, V, P)),
                            !.pre = Q]
    /\ UNCHANGED <<guild_queues, inner, enqLog, deqLog, pure, call, tracks, notifiers,
                   idle_info, fin, task, display>>

\* enqueue_query(G, query) with the collaborator S, V.
REnqueueQuery(query, S, V) ==
    LET r == enqueue_query(guild_queues, inner, G, query, S, V) IN
    /\ Len(Q) < MaxQueue
    /\ guild_queues' = r.gq
    /\ inner' = r.inner
    /\ last' = [NoOp EXCEPT !.op = "enqueue_query", !.query = Some(query),
                            !.res = Some(r.ret), !.pre = Q,
                            !.n = IF HasQ THEN 1 ELSE 0]
    /\ UNCHANGED <<enqLog, deqLog, pure, call, tracks, notifiers, idle_info, fin,
                   task, display>>

\* dequeue on the guild's queue, by another caller.
RDequeue ==
    LET R == get_queue(guild_queues, inner, G)
        r == dequeue(R.inner[R.id]) IN
    /\ guild_queues' = R.gq
    /\ inner' = [R.inner EXCEPT ![R.id] = r.q]
    /\ last' = [NoOp EXCEPT !.op = "dequeue", !.ret = r.ret, !.pre = Q]
    /\ UNCHANGED <<enqLog, deqLog, pure, call, tracks, notifiers, idle_info, fin,
                   task, display>>

NextResolve ==
    \/ \E query \in Queries, S \in Searches, V \in Videos, P \in PlaylistFetches :
           RResolve(query, S, V, P)
    \/ \E query \in Queries, S \in Searches, V \in Videos : REnqueueQuery(query, S, V)
    \/ RDequeue

\* Resolution and enqueue_query on one guild, under every collaborator
\* outcome.
SpecResolve == InitResolve /\ [][NextResolve]_vars

\* The tracks a batch of keywords resolves to when every keyword resolves:
\* the video found for each keyword, in the order of the keywords.
Found(ks, S) == [i \in 1..Len(ks) |-> S[ks[i]]]

\* Every keyword of ks resolves: its search finds a video whose info loads.
AllResolve(ks, S, V) ==
    \A i \in 1..Len(ks) : S[ks[i]] \in CmdUrls /\ V[S[ks[i]]]

\* C25: batch resolution is ordered and all-or-nothing.  Resolving a
\* KeywordList gives what resolving each keyword as a Keywords query gives, in
\* input order, when every keyword resolves; otherwise an error and no track.
C25_BatchOrderedAllOrNothing ==
    (last.op = "resolve" /\ last.query[1].type = "KeywordList") =>
    LET ks == last.query[1].arg IN
    /\ \E S \in Searches, V \in Videos, P \in PlaylistFetches :
           last.res = Some(resolve_query_to_tracks(last.query[1], S, V, P))
    /\ \A S \in Searches, V \in Videos, P \in PlaylistFetches :
        LET r == resolve_query_to_tracks(last.query[1], S, V, P) IN
        /\ AllResolve(ks, S, V) =>
               /\ r.ok
               /\ r.val = Found(ks, S)
               /\ \A i \in 1..Len(ks) :
                      resolve_track(Query("Keywords", <<ks[i]>>), S, V) = Ok(<<r.val[i]>>)
        /\ ~AllResolve(ks, S, V) =>
               /\ ~r.ok
               /\ r.val = <<>>
               /\ \E i \in 1..Len(ks) :
                      r = resolve_track(Query("Keywords", <<ks[i]>>), S, V)

C25_Witness ==
    /\ last.op = "resolve"
    /\ last.query = Some(Query("KeywordList", <<1, 2, 1>>))
    /\ last.res = Some(Ok(<<2, 1, 2>>))


\* C26: resolution totality.  For every query variant and every collaborator
\* outcome, a successful resolve returns at least one track, except a
\* PlaylistLink whose playlist has no entries.
C26_ResolutionTotal ==
    (last.op = "resolve" /\ last.res[1].ok /\ last.query[1].type # "PlaylistLink") =>
        last.res[1].val # <<>>


\* C27: an empty playlist is a distinct outcome.  When the fetch of a valid
\* playlist URL returns no entries, the resolution succeeds with no track, the
\* command replies that no tracks were found, enqueues and starts nothing and
\* leaves the guild's queue as it was; a malformed URL and a failed fetch get
\* other replies.
C27_EmptyPlaylistDistinct ==
    /\ (last.op = "playlist" /\ last.fetch = Some(Ok(<<>>))) =>
           /\ last.res = Some(Ok(<<>>))
           /\ last.sig = MsgNoTracks
           /\ last.sig \notin {MsgInvalidPlaylistUrl, MsgPlaylistError, "added"}
           /\ Q = last.pre
           /\ last.started = None
           /\ last.deq = 0
    /\ (last.op = "playlist" /\ last.fetch # None /\ ~last.fetch[1].ok) =>
           (last.sig = MsgPlaylistError /\ Q = last.pre)
    /\ (last.op = "playlist" /\ last.sig = MsgNoTracks) => last.fetch = Some(Ok(<<>>))

C27_Witness ==
    /\ last.op = "playlist"
    /\ last.fetch = Some(Ok(<<>>))
    /\ last.sig = MsgNoTracks
    /\ Q = <<2>>
    /\ call


\* C28: a failed resolution never enqueues.  When resolve_track fails inside
\* enqueue_query, the call returns that error and the registry and the
\* guild's queue are exactly as before the call; when it succeeds, the track
\* is at the tail.
C28_FailedResolutionNeverEnqueues ==
    /\ (last.op = "enqueue_query" /\ ~last.res[1].ok) =>
           /\ Q = last.pre
           /\ HasQ <=> last.n = 1
           /\ last.res[1].err \in {"VideoError", "NotFound", "UnknownQueryType"}
           /\ \E S \in Searches, V \in Videos :
                  last.res[1] = resolve_track(last.query[1], S, V)
    /\ (last.op = "enqueue_query" /\ last.res[1].ok) =>
           Q = last.pre \o last.res[1].val

C28_Witness ==
    /\ last.op = "enqueue_query"
    /\ last.res = Some(Err("NotFound"))
    /\ last.pre = <<1, 2>>
    /\ Q = <<1, 2>>


\* ------------------- SpecConc: tasks calling one queue concurrently
\* The three tasks of test_queue_concurrent_access.
ConcTasks == {1, 2, 3}

\* A call of a queue method; t: the track of an enqueue, else 0.
MethodCall(op, t) == [op |-> op, t |-> t]

\* The calls each task makes, in order.
Programs(t) ==
    CASE t = 1 -> {<<MethodCall("enqueue", 1), MethodCall("enqueue", 2)>>,
                   <<MethodCall("dequeue", 0), MethodCall("dequeue", 0)>>}
      [] t = 2 -> {<<MethodCall("dequeue", 0), MethodCall("dequeue", 0)>>,
                   <<MethodCall("len", 0), MethodCall("dequeue", 0)>>}
      [] OTHER -> {<<MethodCall("len", 0), MethodCall("len", 0)>>,
                   <<MethodCall("enqueue", 3), MethodCall("len", 0)>>}

ProgramChoices ==
    {f \in [ConcTasks -> UNION {Programs(t) : t \in ConcTasks}] :
         \A t \in ConcTasks : f[t] \in Programs(t)}

\* The tracks the queue holds when the tasks are spawned.
InitialQueues == {<<>>, <<3>>, <<3, 1>>}

\* Every task is before its first call and none holds the lock.  last.pre
\* keeps the initial entries.
InitConc ==
    /\ guild_queues = [g \in {G} |-> 1]
    /\ inner \in {<<q>> : q \in InitialQueues}
    /\ last = [NoOp EXCEPT !.pre = inner[1]]
    /\ enqLog = <<>>
    /\ deqLog = <<>>
    /\ pure = FALSE
    /\ InitProtocolIdle
    /\ task \in {[t \in ConcTasks |-> [prog |-> f[t], i |-> 1, pc |-> "idle", snap |-> <<>>]] :
                     f \in ProgramChoices}
    /\ display = <<>>

\* A lock that every task may take at any time.
CanLockAlways(ts, t) == TRUE

\* tokio::sync::Mutex::lock on the entries: granted when no task holds it.
CanLock(ts, t) == \A o \in DOMAIN ts : ts[o].pc # "held"

\* self.inner.lock().await of the task's next call: the task holds the
\* guard and sees the entries.
LockInner(t) ==
    /\ task[t].i <= Len(task[t].prog)
    /\ task[t].pc = "idle"
    /\ CanLock(task, t)
    /\ task' = [task EXCEPT ![t].pc = "held", ![t].snap = inner[1]]
    /\ UNCHANGED <<guild_queues, inner, last, enqLog, deqLog, pure, pvars, display>>

\* The VecDeque call of the method on the entries the guard gave, the drop of
\* the guard, and the return of the call.  enqLog and deqLog keep the tracks
\* enqueued and the tracks dequeue returned, in the order the calls ran.
UnlockInner(t) ==
    LET c == task[t].prog[task[t].i]
        s == task[t].snap
        r == dequeue(s) IN
    /\ task[t].pc = "held"
    /\ inner' = [inner EXCEPT ![1] = CASE c.op = "enqueue" -> enqueue(s, c.t)
                                        [] c.op = "dequeue" -> r.q
                                        [] OTHER -> s]
    /\ enqLog' = IF c.op = "enqueue" THEN Append(enqLog, c.t) ELSE enqLog
    /\ deqLog' = IF c.op = "dequeue" THEN deqLog \o r.ret ELSE deqLog
    /\ last' = [NoOp EXCEPT !.op = c.op, !.pre = last.pre, !.idx = t,
                            !.ret = IF c.op = "dequeue" THEN r.ret ELSE None,
                            !.n = IF c.op = "len" THEN len(s) ELSE 0]
    /\ task' = [task EXCEPT ![t].pc = "idle", ![t].snap = <<>>, ![t].i = @ + 1]
    /\ UNCHANGED <<guild_queues, pure, pvars, display>>

NextConc ==
    \/ \E t \in ConcTasks : LockInner(t)
    \/ \E t \in ConcTasks : UnlockInner(t)

\* Tasks that enqueue, dequeue and read the length of one queue concurrently.
SpecConc == InitConc /\ [][NextConc]_vars

\* The calls of kind op the tasks have completed.
Completed(op) ==
    LET n(t) == Cardinality({j \in 1..(task[t].i - 1) : task[t].prog[j].op = op}) IN
    n(1) + n(2) + n(3)

\* Position of track u in sequence s, 0 when absent.
IndexOf(s, u) ==
    IF \E j \in 1..Len(s) : s[j] = u
    THEN CHOOSE j \in 1..Len(s) : s[j] = u /\ \A k \in 1..(j - 1) : s[k] # u
    ELSE 0

QueueOf(gq, inn, g) == IF gq[g] # 0 THEN inn[gq[g]] ELSE <<>>

\* C30: guild isolation.  A step for one guild (enqueue, append, dequeue,
\* clear, shuffle, remove, insert, or a display call) leaves the registry
\* entry, the entries and the length of every other guild's queue unchanged.
C30_GuildIsolation ==
    [][\A h \in Guilds :
          h # last'.idx =>
              /\ guild_queues'[h] = guild_queues[h]
              /\ QueueOf(guild_queues', inner', h) = QueueOf(guild_queues, inner, h)
              /\ len(QueueOf(guild_queues', inner', h)) = len(QueueOf(guild_queues, inner, h))]_vars

C30_Witness ==
    /\ last.op = "queue_method"
    /\ last.sig = "clear"
    /\ last.idx = 1
    /\ QueueOf(guild_queues, inner, 1) = <<>>
    /\ last.pre = <<2, 1>>
    /\ QueueOf(guild_queues, inner, 2) = <<1, 2>>


\* --------------- SpecLock: the locks enqueue and clear take
\* A task outside a call.  m: the method; t: the track of an enqueue; sb: the
\* handle has a songbird_call (with_songbird); pre: the caller passes its
\* locked Call as pre_acquired_call; holds_call: the caller locked the
\* session's Call before the call; guard: the task holds the guard of the
\* entries; sess: the method holds the guard of the session's Call.
IdleLockTask ==
    [pc |-> "idle", m |-> "", t |-> 0, sb |-> FALSE, pre |-> FALSE,
     holds_call |-> FALSE, guard |-> FALSE, sess |-> FALSE]

InitLock ==
    /\ guild_queues = [g \in {G} |-> 1]
    /\ inner = <<<<>>>>
    /\ last = NoOp
    /\ enqLog = <<>>
    /\ deqLog = <<>>
    /\ pure = FALSE
    /\ InitProtocolIdle
    /\ task = [t \in Tasks |-> IdleLockTask]
    /\ display = <<>>

\* The guard of the entries after the statement that used it, written as if
\* enqueue bound it to a variable that lives to the end of the method.
guard_after_statement_kept(m) == m = "enqueue"

\* self.inner.lock().await.<call>(..): the guard is a temporary of the
\* statement and is dropped at its end.
guard_after_statement(m) == FALSE

\* The session's Call is locked by some task, as a caller or inside a method.
CallLocked(ts) == \E o \in DOMAIN ts : ts[o].holds_call \/ ts[o].sess

\* A command task calls enqueue(track, pre_acquired_call) or clear() on its
\* handle; with holds_call it first locks the session's Call, as the queue and
\* stop commands do.  A pre_acquired_call is a Call the caller has locked.
BeginCall(t, m, u, sb, pre, holds_call) ==
    /\ task[t].pc = "idle"
    /\ pre => (m = "enqueue" /\ holds_call)
    /\ holds_call => ~CallLocked(task)
    /\ m = "enqueue" => Len(inner[1]) < MaxQueue
    /\ task' = [task EXCEPT ![t] = [IdleLockTask EXCEPT
                    !.pc = "lock_inner", !.m = m, !.t = u, !.sb = sb, !.pre = pre,
                    !.holds_call = holds_call]]
    /\ UNCHANGED <<guild_queues, inner, last, enqLog, deqLog, pure, pvars, display>>

\* self.inner.lock().await, granted while no task holds the guard.
LockEntries(t) ==
    /\ task[t].pc = "lock_inner"
    /\ \A o \in Tasks : ~task[o].guard
    /\ task' = [task EXCEPT ![t].pc = "mutate", ![t].guard = TRUE]
    /\ UNCHANGED <<guild_queues, inner, last, enqLog, deqLog, pure, pvars, display>>

\* push_back or clear on the entries and the end of that statement.  Then:
\* enqueue with a pre_acquired_call uses it; a handle with a songbird_call
\* goes on to lock it; otherwise the method returns.
Mutate(t) ==
    LET k == task[t] IN
    /\ k.pc = "mutate"
    /\ inner' = [inner EXCEPT ![1] = IF k.m = "enqueue" THEN push_back(@, k.t)
                                     ELSE clear(@)]
    /\ task' = [task EXCEPT ![t].guard = guard_after_statement(k.m),
                            ![t].pc = IF k.m = "enqueue" /\ k.pre THEN "transport"
                                      ELSE IF k.sb THEN "lock_call"
                                      ELSE "return"]
    /\ last' = [NoOp EXCEPT !.op = k.m, !.idx = t, !.pre = inner[1]]
    /\ UNCHANGED <<guild_queues, enqLog, deqLog, pure, pvars, display>>

\* songbird_call.lock().await inside the method, granted while no task has
\* the Call locked (the tokio Mutex is not reentrant).
LockCall(t) ==
    /\ task[t].pc = "lock_call"
    /\ ~CallLocked(task)
    /\ task' = [task EXCEPT ![t].pc = "transport", ![t].sess = TRUE]
    /\ UNCHANGED <<guild_queues, inner, last, enqLog, deqLog, pure, pvars, display>>

\* call.enqueue_input(input).await or call.stop(): the wait on the transport,
\* then the drop of the method's guard of the Call.
Transport(t) ==
    /\ task[t].pc = "transport"
    /\ task' = [task EXCEPT ![t].pc = "return", ![t].sess = FALSE]
    /\ UNCHANGED <<guild_queues, inner, last, enqLog, deqLog, pure, pvars, display>>

\* The method returns and the command ends, dropping what it holds.
Return(t) ==
    /\ task[t].pc = "return"
    /\ task' = [task EXCEPT ![t] = IdleLockTask]
    /\ UNCHANGED <<guild_queues, inner, last, enqLog, deqLog, pure, pvars, display>>

NextLock ==
    \/ \E t \in Tasks, m \in {"enqueue", "clear"}, u \in CmdUrls,
          sb \in BOOLEAN, pre \in BOOLEAN, holds_call \in BOOLEAN :
           BeginCall(t, m, u, sb, pre, holds_call)
    \/ \E t \in Tasks : LockEntries(t)
    \/ \E t \in Tasks : Mutate(t)
    \/ \E t \in Tasks : LockCall(t)
    \/ \E t \in Tasks : Transport(t)
    \/ \E t \in Tasks : Return(t)

\* Tasks calling enqueue and clear, with the two locks they take.
SpecLock == InitLock /\ [][NextLock]_vars

\* C31: the lock on the entries is never held across a wait on the outside
\* world.  A task that waits for the session's Call, or on the transport,
\* does not hold the guard of the entries, and at most one task holds it.
C31_NoEntriesLockAcrossWait ==
    /\ \A t \in Tasks :
           task[t].pc \in {"lock_call", "transport", "return"} => ~task[t].guard
    /\ \A t, o \in Tasks : (task[t].guard /\ task[o].guard) => t = o

C31_Witness ==
    /\ task[1].pc = "transport" /\ task[1].m = "enqueue" /\ task[1].sess
    /\ task[2].pc = "mutate" /\ task[2].guard /\ task[2].m = "clear"


\* C39: no self-deadlock on the session lock.  A task that locked the
\* session's Call before it called clear(), or enqueue() without a
\* pre-acquired call, never waits inside the method for that same Call.
C39_NoSelfDeadlock ==
    \A t \in Tasks : ~(task[t].pc = "lock_call" /\ task[t].holds_call)


\* C32: all handles of a guild share one queue.  Any two handles tasks hold
\* for the same guild refer to the same entries, and every queue ever created
\* is the one its guild's registry entry refers to.
C32_HandlesShareOneQueue ==
    /\ \A t, o \in DOMAIN task :
           (task[t].pc = "have" /\ task[o].pc = "have" /\ task[t].g = task[o].g)
               => task[t].h = task[o].h
    /\ \A h \in DOMAIN inner : \E g \in DOMAIN guild_queues : guild_queues[g] = h


\* C33: in-range index operations agree with a plain sequence.  For an index
\* i inside the queue, get(i) returns the i-th track and leaves the queue as
\* it was; remove(i) returns that track and leaves the others in their order,
\* one fewer; insert(i, t) puts t at index i with the others in their order.
C33_InRangeIndexOperations ==
    LET p == last.pre
        i == last.idx
    IN  /\ (last.op = "get" /\ i < Len(p)) =>
               (last.ret = <<p[i + 1]>> /\ Q1 = p)
        /\ (last.op = "remove" /\ i < Len(p)) =>
               /\ last.ret = <<p[i + 1]>>
               /\ Len(Q1) = Len(p) - 1
               /\ \A j \in 1..Len(Q1) : Q1[j] = IF j <= i THEN p[j] ELSE p[j + 1]
        /\ (last.op = "insert" /\ i <= Len(p)) =>
               /\ last.sig # "panic"
               /\ Len(Q1) = Len(p) + 1
               /\ Q1[i + 1] = last.arg[1]
               /\ \A j \in 1..Len(p) : p[j] = IF j <= i THEN Q1[j] ELSE Q1[j + 1]

C33_Witness ==
    /\ last.op = "remove" /\ last.idx = 1 /\ Len(last.pre) = 3
    /\ last.pre[1] # last.pre[3] /\ last.ret = <<last.pre[2]>>


\* C34: the continuation chain is never broken.  Whatever step hands a track
\* to the transport (a command's play_next_from_queue, the TrackEnd or the
\* TrackError callback) registers both the track-end and the track-error
\* callback on it, and a step that starts none registers none.
C34_ContinuationChain ==
    /\ last.started # None => last.hnd = {"End", "Error"}
    /\ last.started = None => last.hnd = {}

C34_Witness ==
    /\ last.op = "error" /\ last.started # None /\ last.hnd = {"End", "Error"}
    /\ \E i \in Playing(tracks) : tracks[i].url = last.started[1]


\* C35: a changed idle timeout takes effect.  The threshold an idle check
\* uses is the guild's configured timeout_minutes at the time of the tick,
\* whenever the session was joined.
C35_ChangedTimeoutTakesEffect ==
    (last.op = "tick" /\ idle_info # None) =>
        last.timeout = idle_info[1].timeout_minutes


\* C36: show on an empty queue gives the explicit empty signal.  show_queue
\* on a guild with no queued track and nothing playing replies with the
\* queue-is-empty message.
C36_ShowEmptyQueue ==
    (last.op = "show_queue" /\ last.pre = <<>> /\ last.live = 0) =>
        last.sig = MsgQueueEmpty


\* C38: skip loses no queued track.  After the skip command the track it
\* started, if any, is the one that was at the head of the queue, and the
\* tracks queued when skip was issued are that track followed by the queue.
C38_SkipLosesNoTrack ==
    last.op = "skip" =>
        /\ last.started \o Q = last.pre
        /\ last.pre # <<>> => last.started = <<Head(last.pre)>>


\* C37: no stalled queue.  While the guild has a Call and its queue is not
\* empty, a track is playing or a track event is still to be delivered to a
\* registered callback.
C37_NoStalledQueue ==
    (call /\ Q # <<>>) =>
        (Playing(tracks) # {} \/ \E i \in 1..Len(tracks) : tracks[i].ev # {})


\* ------------- SpecAppend: append_queue beside another task's enqueue
\* The vectors append_queue is called with.
AppendChoices == {<<>>, <<1, 2>>, <<2, 1>>}
\* The track the other task enqueues.
OtherUrl == 3

\* The task of append_queue outside a call.  v: the tracks; i: the index of
\* the next one; snap: the guild's entries when the call began.
IdleAppend == [pc |-> "idle", g |-> 0, v |-> <<>>, i |-> 0, snap |-> <<>>]

InitAppend ==
    /\ guild_queues = [g \in Guilds |-> 0]
    /\ inner = <<>>
    /\ last = NoOp
    /\ enqLog = <<>>
    /\ deqLog = <<>>
    /\ pure = FALSE
    /\ InitProtocolIdle
    /\ task = <<IdleAppend>>
    /\ display = <<>>

\* append_queue(guild, tracks) is called.
ABegin(g, v) ==
    /\ task[1].pc = "idle"
    /\ task' = <<[pc |-> "loop", g |-> g, v |-> v, i |-> 1,
                  snap |-> QueueOf(guild_queues, inner, g)]>>
    /\ last' = [NoOp EXCEPT !.op = "append_begin", !.idx = g, !.arg = v]
    /\ UNCHANGED <<guild_queues, inner, enqLog, deqLog, pure, pvars, display>>

\* for track in tracks { self.get_queue(guild).push_back(track).await }: one
\* round, with its own get_queue.
AStep ==
    LET k == task[1]
        R == get_queue(guild_queues, inner, k.g)
        q == push_back(R.inner[R.id], k.v[k.i]) IN
    /\ k.pc = "loop"
    /\ k.i <= Len(k.v)
    /\ Len(q) <= MaxQueue
    /\ guild_queues' = R.gq
    /\ inner' = [R.inner EXCEPT ![R.id] = q]
    /\ display' = entry_displays(R)
    /\ task' = <<[k EXCEPT !.i = k.i + 1]>>
    /\ last' = [NoOp EXCEPT !.op = "append_step", !.idx = k.g, !.arg = k.v]
    /\ UNCHANGED <<enqLog, deqLog, pure, pvars>>

\* The loop is over and append_queue returns.
ADone ==
    LET k == task[1] IN
    /\ k.pc = "loop"
    /\ k.i > Len(k.v)
    /\ task' = <<IdleAppend>>
    /\ last' = [NoOp EXCEPT !.op = "client_append_queue", !.idx = k.g, !.arg = k.v,
                            !.pre = k.snap]
    /\ UNCHANGED <<guild_queues, inner, enqLog, deqLog, pure, pvars, display>>

\* Another task enqueues a track into a guild: enqueue_track, or push_back
\* on a handle of the guild's queue.
AEnqueue(g) ==
    LET R == get_queue(guild_queues, inner, g) IN
    /\ Len(R.inner[R.id]) < MaxQueue
    /\ guild_queues' = R.gq
    /\ inner' = [R.inner EXCEPT ![R.id] = push_back(@, OtherUrl)]
    /\ display' = entry_displays(R)
    /\ last' = [NoOp EXCEPT !.op = "client_enqueue_track", !.idx = g,
                            !.arg = Some(OtherUrl)]
    /\ UNCHANGED <<enqLog, deqLog, pure, pvars, task>>

NextAppend ==
    \/ \E g \in Guilds, v \in AppendChoices : ABegin(g, v)
    \/ AStep
    \/ ADone
    \/ \E g \in Guilds : AEnqueue(g)

\* append_queue round by round, with another task enqueueing.
SpecAppend == InitAppend /\ [][NextAppend]_vars

\* C40: registry append equals queue append.  When append_queue(guild,
\* tracks) returns, the guild's queue holds, after the entries it had when
\* the call began, the tracks contiguous and in input order, as one
\* append_vec(tracks) made at some moment of the call would leave them.
C40_AppendQueueAsAppendVec ==
    last.op = "client_append_queue" =>
        LET q == QueueOf(guild_queues, inner, last.idx)
            v == last.arg
            p == last.pre IN
        /\ SubSeq(q, 1, Len(p)) = p
        /\ \E k \in (Len(p) + 1)..(Len(q) - Len(v) + 1) :
               SubSeq(q, k, k + Len(v) - 1) = v

=============================================================================
